---- MODULE Spec2Model ----
(***************************************************************************)
(* A model of the cadence metrics of sims_maf                             *)
(* (python/lsst/sims/maf/metrics/cadenceMetrics.py) and of AstroPrecMetric *)
(* (python/lsst/sims/operations/maf/metrics/astroPrecMetric.py).           *)
(*                                                                         *)
(* A metric instance is a configuration record `cfg` fixed at             *)
(* construction; `run` consumes a slice (a sequence of visit records) and  *)
(* returns a value; the reducers of SupernovaMetric consume what run      *)
(* returned.  SpecSN runs SupernovaMetric one candidate epoch at a time    *)
(* and then a reducer; SpecCadence runs UniformityMetric and               *)
(* RapidRevisitMetric; SpecGaps runs TemplateExistsMetric, NRevisitsMetric *)
(* and the three gap metrics, which sort the caller's slice in place;      *)
(* SpecRun invokes every metric twice on one slice object, with or without *)
(* a slice point; SpecConcurrent interleaves two invocations of one        *)
(* instance; SpecColumns runs SupernovaMetric with its filter column bound *)
(* to another name and at the ends of its parameter ranges.  A Python      *)
(* exception is an outcome named after it, and the float not-a-number is   *)
(* the outcome "nan".                                                      *)
(*                                                                         *)
(* Numbers.  The code computes in floating point; the model computes the  *)
(* same expressions exactly.  A rational is a pair <<n, d>> with d > 0 in  *)
(* lowest terms.  Rest-frame times of the supernova metric are kept as     *)
(* integer numerators over the common denominator ZP(cfg), where           *)
(* 1 + redshift = ZP/ZQ, so a comparison  time < x  of the code reads      *)
(* timeNum < x * ZP.                                                       *)
(***************************************************************************)
EXTENDS Integers, Sequences, FiniteSets, TLC

VARIABLES metric, cfg, dataSlice, pc, loc, ret, red

vars == <<metric, cfg, dataSlice, pc, loc, ret, red>>

----------------------------------------------------------------------------
(* Bounds of the model *)

\* last time slot (days) of the slices with mixed filters and depths
MaxT == 6
\* last time slot (days) of the long single-filter slices
MaxLongT == 10
\* longest slice drawn with free row order, filters and repeated times
MaxMixedLen == 2
\* longest slice of the uniformity and rapid-revisit metrics
MaxObs == 4
\* last point of the time grid those slices are drawn from
MaxK == 5

----------------------------------------------------------------------------
(* Arithmetic helpers *)

Abs(x) == IF x < 0 THEN -x ELSE x

RECURSIVE Gcd(_, _)
Gcd(a, b) == IF b = 0 THEN a ELSE Gcd(b, a % b)

\* the rational n/d (d # 0) in lowest terms with a positive denominator
Rat(n, d) ==
    LET s == IF d < 0 THEN -1 ELSE 1
        g == Gcd(Abs(n), Abs(d))
    IN  <<(s * n) \div g, (s * d) \div g>>

RatLess(a, b) == a[1] * b[2] < b[1] * a[2]
RatLeq(a, b) == a[1] * b[2] <= b[1] * a[2]

\* np.ceil(n/d) for d > 0
CeilDiv(n, d) == -((-n) \div d)

SeqMax(s) == CHOOSE x \in {s[j] : j \in 1..Len(s)} : \A j \in 1..Len(s) : s[j] <= x
SeqMin(s) == CHOOSE x \in {s[j] : j \in 1..Len(s)} : \A j \in 1..Len(s) : x <= s[j]

\* the ascending sort of a sequence of integers
RECURSIVE SortInts(_)
SortInts(s) ==
    IF s = <<>> THEN <<>>
    ELSE LET v == s[Len(s)]
             r == SortInts(SubSeq(s, 1, Len(s) - 1))
             k == Cardinality({j \in 1..Len(r) : r[j] <= v})
         IN  SubSeq(r, 1, k) \o <<v>> \o SubSeq(r, k + 1, Len(r))

\* np.median of a non-empty sequence of integers, as a rational
MedianInts(s) ==
    LET r == SortInts(s)
        n == Len(r)
    IN  IF n % 2 = 1 THEN Rat(r[(n + 1) \div 2], 1)
        ELSE Rat(r[n \div 2] + r[n \div 2 + 1], 2)

\* the elements of a set of integers in ascending order
RECURSIVE SetToSeq(_)
SetToSeq(S) ==
    IF S = {} THEN <<>>
    ELSE LET m == CHOOSE x \in S : \A y \in S : y <= x
         IN  Append(SetToSeq(S \ {m}), m)

----------------------------------------------------------------------------
(* Visit records and numpy helpers *)

AllFilters == {"u", "g", "r", "i", "z", "y"}

FilterIndex(f) ==
    CASE f = "u" -> 1 [] f = "g" -> 2 [] f = "r" -> 3
      [] f = "i" -> 4 [] f = "z" -> 5 [] f = "y" -> 6

\* ndarray.sort(order=mjdCol): ascending in the time column, ties broken by
\* the remaining fields of the record
VisitLeq(a, b) ==
    \/ a.mjd < b.mjd
    \/ /\ a.mjd = b.mjd
       /\ \/ FilterIndex(a.filter) < FilterIndex(b.filter)
          \/ FilterIndex(a.filter) = FilterIndex(b.filter) /\ a.m5 <= b.m5

\* a plausible slip: the rows taken in the order they came
SortVisitsSkipped(s) == s

RECURSIVE SortVisits(_)
SortVisits(s) ==
    IF s = <<>> THEN <<>>
    ELSE LET v == s[Len(s)]
             r == SortVisits(SubSeq(s, 1, Len(s) - 1))
             k == Cardinality({j \in 1..Len(r) : VisitLeq(r[j], v)})
         IN  SubSeq(r, 1, k) \o <<v>> \o SubSeq(r, k + 1, Len(r))

\* a plausible slip: the side ignored, every search taken from the left
SearchSortedLeftOnly(a, x, side) == Cardinality({j \in 1..Len(a) : a[j] < x})

\* np.searchsorted(a, x, side) on an ascending sequence a (0-based position)
SearchSorted(a, x, side) ==
    IF side = "left" THEN Cardinality({j \in 1..Len(a) : a[j] < x})
    ELSE Cardinality({j \in 1..Len(a) : a[j] <= x})

----------------------------------------------------------------------------
(* SupernovaMetric *)

\* 1 + redshift = ZP/ZQ, the redshift being the rational cfg.redshift
ZP(c) == c.redshift[1] + c.redshift[2]
ZQ(c) == c.redshift[2]

\* filter effective wavelengths in nm
FilterCenter(f) ==
    CASE f = "u" -> 375 [] f = "g" -> 476 [] f = "r" -> 621
      [] f = "i" -> 754 [] f = "z" -> 870 [] f = "y" -> 980

\* self.filterNames after __init__: rest-frame wavelength strictly inside (300, 900)
filterNames(c) ==
    {f \in AllFilters : /\ FilterCenter(f) * ZQ(c) > 300 * ZP(c)
                        /\ FilterCenter(f) * ZQ(c) < 900 * ZP(c)}

\* dataSlice['filter'] (line 110) needs a column of that very name, whatever
\* filterCol is; without it numpy raises ValueError
HasFilterColumn(ds) == \A j \in 1..Len(ds) : "filter" \in DOMAIN ds[j]

\* dataSlice[goodFilters]: a copy holding the rows whose 'filter' column is a
\* valid filter
goodFilters(ds, c) == SelectSeq(ds, LAMBDA v : v.filter \in filterNames(c))

\* time = (mjd - min mjd) / (1 + redshift), as numerators over ZP(c)
RestTime(ds, c) ==
    LET mjds == [j \in 1..Len(ds) |-> ds[j].mjd]
    IN  [j \in 1..Len(ds) |-> (ds[j].mjd - SeqMin(mjds)) * ZQ(c)]

\* finetime = np.arange(0, np.ceil(np.max(time)), resolution), in days
FineTime(time, c) ==
    LET stop == CeilDiv(SeqMax(time), ZP(c))
    IN  [k \in 1..CeilDiv(stop, c.resolution) |-> (k - 1) * c.resolution]

\* the locals of run when the candidate loop is entered
SNSetup(slice, c) ==
    LET ds == SortVisits(goodFilters(slice, c))
        time == RestTime(ds, c)
        finetime == FineTime(time, c)
        right == [k \in 1..Len(finetime) |->
                    SearchSorted(time, (finetime[k] + c.Tmax - c.Tmin) * ZP(c), "right")]
        left == [k \in 1..Len(finetime) |->
                    SearchSorted(time, finetime[k] * ZP(c), "left")]
        good == SetToSeq({k \in 1..Len(finetime) : right[k] - left[k] > c.Nbetween})
    IN  [ds |-> ds, time |-> time, finetime |-> finetime,
         ind |-> [j \in 1..Len(good) |-> good[j] - 1],
         right |-> [j \in 1..Len(good) |-> right[good[j]]],
         left |-> [j \in 1..Len(good) |-> left[good[j]]],
         i |-> 0, right_side |-> -1,
         result |-> 0, maxGap |-> <<>>, Nobs |-> <<>>]

\* visits = dataSlice[left[i]:right[i]]
Visits(l) == SubSeq(l.ds, l.left[l.i + 1] + 1, l.right[l.i + 1])

\* t = time[left[i]:right[i]] - finetime[index] + Tmin, as numerators over ZP(c)
ShiftedT(l, c) ==
    LET lo == l.left[l.i + 1]
        n == l.right[l.i + 1] - lo
        epoch == l.finetime[l.ind[l.i + 1] + 1]
    IN  [j \in 1..n |-> l.time[lo + j] + (c.Tmin - epoch) * ZP(c)]

\* nearPeak = np.where((t > Tless) & (t < Tmore)): positions in ascending order
NearPeak(t, c) ==
    SetToSeq({j \in 1..Len(t) : t[j] > c.Tless * ZP(c) /\ t[j] < c.Tmore * ZP(c)})

\* the number of near-peak filters whose deepest near-peak visit beats singleDepthLimit
FiltersBrightEnough(visits, nearPeak, c) ==
    LET np == {nearPeak[j] : j \in 1..Len(nearPeak)}
        ufilters == {visits[j][c.filterCol] : j \in np}
    IN  Cardinality({f \in ufilters :
            SeqMax(SetToSeq({visits[j].m5 : j \in {k \in np : visits[k][c.filterCol] = f}}))
                > c.singleDepthLimit})

\* a plausible slip: no gap at all when fewer than two visits are near the peak
MaxGapsOfFewTakenAsZero(t, nearPeak, c) ==
    IF Len(nearPeak) >= 2
    THEN SeqMax([j \in 1..(Len(nearPeak) - 1) |-> t[nearPeak[j + 1]] - t[nearPeak[j]]])
    ELSE 0

\* np.max(gaps): the largest difference of consecutive near-peak times, or
\* peakGap + 1e6 when fewer than two visits are near the peak (numerator over ZP(c))
MaxGaps(t, nearPeak, c) ==
    IF Len(nearPeak) >= 2
    THEN SeqMax([j \in 1..(Len(nearPeak) - 1) |-> t[nearPeak[j + 1]] - t[nearPeak[j]]])
    ELSE (c.peakGap + 1000000) * ZP(c)

\* a plausible slip: at least Nless visits before Tless instead of more than Nless
EnoughBeforeAtLeast(t, c) ==
    Cardinality({j \in 1..Len(t) : t[j] < c.Tless * ZP(c)}) >= c.Nless

\* np.size(np.where(t < Tless)[0]) > Nless
EnoughBefore(t, c) ==
    Cardinality({j \in 1..Len(t) : t[j] < c.Tless * ZP(c)}) > c.Nless

\* np.size(np.where(t > Tmore)[0]) > Nmore
EnoughAfter(t, c) ==
    Cardinality({j \in 1..Len(t) : t[j] > c.Tmore * ZP(c)}) > c.Nmore

\* the nested conditions of the loop body for the window of candidate l.i
Qualifies(l, c) ==
    LET visits == Visits(l)
        t == ShiftedT(l, c)
        nearPeak == NearPeak(t, c)
    IN  /\ EnoughBefore(t, c)
        /\ EnoughAfter(t, c)
        /\ Len(t) > c.Nbetween
        /\ Cardinality({visits[j][c.filterCol] : j \in 1..Len(visits)}) >= c.Nfilt
        /\ FiltersBrightEnough(visits, nearPeak, c) >= c.Nfilt
        /\ MaxGaps(t, nearPeak, c) < c.peakGap * ZP(c)

\* a plausible slip: the skip test off by one
SkippedOffByOne(l) == l.i <= l.right_side + 1

\* the test that skips a candidate
Skipped(l) == l.i <= l.right_side

\* a plausible slip: the near-peak count recorded in place of the window count
AcceptRecordingNearPeakCount(l, c) ==
    LET t == ShiftedT(l, c)
    IN  [l EXCEPT !.result = @ + 1,
                  !.right_side = IF c.uniqueBlocks THEN l.right[l.i + 1] ELSE @,
                  !.maxGap = Append(@, MaxGaps(t, NearPeak(t, c), c)),
                  !.Nobs = Append(@, Len(NearPeak(t, c)))]

\* what an accepted sequence records
Accept(l, c) ==
    LET t == ShiftedT(l, c)
    IN  [l EXCEPT !.result = @ + 1,
                  !.right_side = IF c.uniqueBlocks THEN l.right[l.i + 1] ELSE @,
                  !.maxGap = Append(@, MaxGaps(t, NearPeak(t, c), c)),
                  !.Nobs = Append(@, Len(t))]

\* one pass of the body of the candidate loop
SNBody(l, c) ==
    LET after == IF ~Skipped(l) /\ Qualifies(l, c) THEN Accept(l, c) ELSE l
    IN  [after EXCEPT !.i = l.i + 1]

\* the locals when the loop has ended
RECURSIVE SNLoop(_, _)
SNLoop(l, c) == IF l.i >= Len(l.ind) THEN l ELSE SNLoop(SNBody(l, c), c)

\* what run returns: the tuple of bad values, or the dict
SNResult(l) ==
    [type |-> "dict", result |-> l.result, maxGap |-> l.maxGap, Nobs |-> l.Nobs]

SNBadTuple(c) == [type |-> "tuple", items |-> <<c.badval, c.badval, c.badval>>]

SNRun(slice, c) ==
    IF ~HasFilterColumn(slice) THEN [type |-> "ValueError"]
    ELSE IF goodFilters(slice, c) = <<>> THEN SNBadTuple(c)
    ELSE SNResult(SNLoop(SNSetup(slice, c), c))

\* The reducers: data[key] with a string key raises TypeError unless data is a
\* dict; np.median of an empty array is not-a-number, replaced by badval.
\* reduceMedianMaxGap; the gaps are numerators over ZP(c)
reduceMedianMaxGap(data, c) ==
    IF data.type # "dict" THEN [kind |-> "TypeError"]
    ELSE IF data.maxGap = <<>> THEN [kind |-> "value", val |-> Rat(c.badval, 1)]
    ELSE LET m == MedianInts(data.maxGap)
         IN  [kind |-> "value", val |-> Rat(m[1], m[2] * ZP(c))]

\* reduceNsequences
reduceNsequences(data, c) ==
    IF data.type # "dict" THEN [kind |-> "TypeError"]
    ELSE [kind |-> "value", val |-> Rat(data.result, 1)]

\* a plausible slip: the not-a-number check left out
reduceMedianNobsUnchecked(data, c) ==
    IF data.type # "dict" THEN [kind |-> "TypeError"]
    ELSE IF data.Nobs = <<>> THEN [kind |-> "nan"]
    ELSE [kind |-> "value", val |-> MedianInts(data.Nobs)]

\* reduceMedianNobs
reduceMedianNobs(data, c) ==
    IF data.type # "dict" THEN [kind |-> "TypeError"]
    ELSE IF data.Nobs = <<>> THEN [kind |-> "value", val |-> Rat(c.badval, 1)]
    ELSE [kind |-> "value", val |-> MedianInts(data.Nobs)]

----------------------------------------------------------------------------
(* The slices and configurations the supernova metric is run on *)

Visit(t, f, m) == [mjd |-> t, filter |-> f, m5 |-> m]

\* what a time slot can hold: nothing, or one visit
SlotKinds == {<<"g", 24>>, <<"r", 22>>}

\* the rows of an assignment of kinds to the time slots 0..T, latest first
RECURSIVE SlotSeq(_, _)
SlotSeq(a, T) ==
    IF T < 0 THEN <<>>
    ELSE (IF a[T] = <<>> THEN <<>> ELSE <<Visit(T, a[T][1], a[T][2])>>) \o SlotSeq(a, T - 1)

SlotSlices == {SlotSeq(a, MaxT) : a \in [0..MaxT -> SlotKinds \cup {<<>>}]}

LongSlices == {SlotSeq(a, MaxLongT) : a \in [0..MaxLongT -> {<<"g", 24>>, <<>>}]}

MixedVisits == {Visit(t, f, 24) : t \in 0..2, f \in {"g", "y"}}

MixedSlices == UNION {[1..n -> MixedVisits] : n \in 0..MaxMixedLen}


SNConfig(z, nfilt, depth, gap, unique) ==
    [redshift |-> z, Tmin |-> -2, Tmax |-> 3, Nbetween |-> 2, Nfilt |-> nfilt,
     Tless |-> -1, Nless |-> 0, Tmore |-> 2, Nmore |-> 0, peakGap |-> gap,
     singleDepthLimit |-> depth, resolution |-> 1, uniqueBlocks |-> unique,
     filterCol |-> "filter", badval |-> -666]

SNConfigs ==
    {SNConfig(<<0, 1>>, nf, d, 2, u) : nf \in {1, 2}, d \in {21, 23}, u \in BOOLEAN}
    \cup {SNConfig(<<1, 4>>, 1, 23, 1, u) : u \in BOOLEAN}
    \cup {[SNConfig(<<0, 1>>, 1, 23, 2, u) EXCEPT !.resolution = 2] : u \in BOOLEAN}

LongConfigs == {SNConfig(<<0, 1>>, 1, 23, 2, u) : u \in BOOLEAN}

----------------------------------------------------------------------------
(* SupernovaMetric.run as a state machine *)

NoLoc == [i |-> 0]
NoRet == [type |-> "none"]
NoRed == [name |-> "none"]

InitSN ==
    /\ metric = "SupernovaMetric"
    /\ \/ cfg \in SNConfigs /\ dataSlice \in SlotSlices \cup MixedSlices
       \/ cfg \in LongConfigs /\ dataSlice \in LongSlices
    /\ pc = "start"
    /\ loc = NoLoc
    /\ ret = NoRet
    /\ red = NoRed

\* lines 109-135: filter, sort, build the candidate windows
SNStart ==
    /\ metric = "SupernovaMetric"
    /\ pc = "start"
    /\ IF ~HasFilterColumn(dataSlice) \/ goodFilters(dataSlice, cfg) = <<>>
       THEN /\ ret' = SNRun(dataSlice, cfg)
            /\ pc' = "returned"
            /\ loc' = loc
       ELSE /\ loc' = SNSetup(dataSlice, cfg)
            /\ pc' = "loop"
            /\ ret' = ret
    /\ UNCHANGED <<metric, cfg, dataSlice, red>>

\* lines 136-167: one candidate
SNIterate ==
    /\ pc = "loop"
    /\ loc.i < Len(loc.ind)
    /\ loc' = SNBody(loc, cfg)
    /\ UNCHANGED <<metric, cfg, dataSlice, pc, ret, red>>

\* lines 168-170
SNReturn ==
    /\ pc = "loop"
    /\ loc.i >= Len(loc.ind)
    /\ ret' = SNResult(loc)
    /\ pc' = "returned"
    /\ UNCHANGED <<metric, cfg, dataSlice, loc, red>>

ReduceMedianMaxGap ==
    /\ metric = "SupernovaMetric"
    /\ pc = "returned"
    /\ red' = [name |-> "reduceMedianMaxGap", out |-> reduceMedianMaxGap(ret, cfg)]
    /\ pc' = "reduced"
    /\ UNCHANGED <<metric, cfg, dataSlice, loc, ret>>

ReduceNsequences ==
    /\ metric = "SupernovaMetric"
    /\ pc = "returned"
    /\ red' = [name |-> "reduceNsequences", out |-> reduceNsequences(ret, cfg)]
    /\ pc' = "reduced"
    /\ UNCHANGED <<metric, cfg, dataSlice, loc, ret>>

ReduceMedianNobs ==
    /\ metric = "SupernovaMetric"
    /\ pc = "returned"
    /\ red' = [name |-> "reduceMedianNobs", out |-> reduceMedianNobs(ret, cfg)]
    /\ pc' = "reduced"
    /\ UNCHANGED <<metric, cfg, dataSlice, loc, ret>>

NextSN ==
    \/ SNStart
    \/ SNIterate
    \/ SNReturn
    \/ ReduceMedianMaxGap
    \/ ReduceNsequences
    \/ ReduceMedianNobs

SpecSN == InitSN /\ [][NextSN]_vars

----------------------------------------------------------------------------
(* What the supernova metric is specified to compute, stated on the caller's *)
(* slice without the sorted arrays of the code                               *)

\* the rows of the slice in a filter of the valid rest-frame set
ValidRows(slice, c) == {j \in 1..Len(slice) : slice[j].filter \in filterNames(c)}

\* rest-frame time of every valid row since the first valid row, as numerators
\* over ZP(c)
RestOf(slice, c) ==
    LET V == ValidRows(slice, c)
        t0 == CHOOSE m \in {slice[k].mjd : k \in V} : \A k \in V : m <= slice[k].mjd
    IN  [j \in V |-> (slice[j].mjd - t0) * ZQ(c)]

\* the candidate epochs 0, resolution, 2*resolution, ... below ceil(max rest-frame time)
CandidateEpochs(rest, c) ==
    LET top == CHOOSE m \in {rest[k] : k \in DOMAIN rest} : \A k \in DOMAIN rest : rest[k] <= m
    IN  {e \in 0..CeilDiv(top, ZP(c)) : e % c.resolution = 0 /\ e < CeilDiv(top, ZP(c))}

\* the rows gathered for the candidate at epoch e
WindowRows(rest, c, e) ==
    {j \in DOMAIN rest : rest[j] >= e * ZP(c) /\ rest[j] <= (e + c.Tmax - c.Tmin) * ZP(c)}

\* the near-peak rows, by the shifted time t = time - epoch + Tmin
NearRows(rest, c, e) ==
    {j \in WindowRows(rest, c, e) :
        /\ rest[j] + (c.Tmin - e) * ZP(c) > c.Tless * ZP(c)
        /\ rest[j] + (c.Tmin - e) * ZP(c) < c.Tmore * ZP(c)}

\* the gaps between near-peak rows consecutive in time
NearGaps(rest, c, e) ==
    LET N == NearRows(rest, c, e)
    IN  {rest[p[2]] - rest[p[1]] : p \in
            {p \in N \X N :
                /\ p[1] # p[2]
                /\ rest[p[1]] <= rest[p[2]]
                /\ ~\E m \in N : rest[p[1]] < rest[m] /\ rest[m] < rest[p[2]]}}

\* every acceptance threshold of the candidate at epoch e
MeetsThresholds(slice, rest, c, e) ==
    LET W == WindowRows(rest, c, e)
        N == NearRows(rest, c, e)
    IN  /\ Cardinality({j \in W : rest[j] + (c.Tmin - e) * ZP(c) < c.Tless * ZP(c)}) > c.Nless
        /\ Cardinality({j \in W : rest[j] + (c.Tmin - e) * ZP(c) > c.Tmore * ZP(c)}) > c.Nmore
        /\ Cardinality(W) > c.Nbetween
        /\ Cardinality({slice[j].filter : j \in W}) >= c.Nfilt
        /\ Cardinality({f \in AllFilters :
                \E j \in N : slice[j].filter = f /\ slice[j].m5 > c.singleDepthLimit})
             >= c.Nfilt
        /\ Cardinality(N) >= 2
        /\ \A g \in NearGaps(rest, c, e) : g < c.peakGap * ZP(c)

QualifyingEpochs(slice, c) ==
    IF ValidRows(slice, c) = {} THEN {}
    ELSE LET rest == RestOf(slice, c)
         IN  {e \in CandidateEpochs(rest, c) : MeetsThresholds(slice, rest, c, e)}

\* the k-th smallest entry of a sequence of integers
Kth(s, k) ==
    CHOOSE v \in {s[j] : j \in 1..Len(s)} :
        /\ Cardinality({j \in 1..Len(s) : s[j] < v}) < k
        /\ k <= Cardinality({j \in 1..Len(s) : s[j] <= v})

\* the median of a non-empty sequence of integers
MedianOf(s) ==
    IF Len(s) % 2 = 1 THEN Rat(Kth(s, (Len(s) + 1) \div 2), 1)
    ELSE Rat(Kth(s, Len(s) \div 2) + Kth(s, Len(s) \div 2 + 1), 2)

BadValue(c) == [kind |-> "value", val |-> Rat(c.badval, 1)]

----------------------------------------------------------------------------
(* Claims about SupernovaMetric *)

\* C1 (as claimed): with uniqueBlocks set, a candidate that is about to be
\* accepted never has its window start (the index of its first observation)
\* before the window end (one past the last observation) of the sequence
\* accepted before it, so accepted sequences do not overlap.
C1_AcceptedDoNotOverlap ==
    (/\ pc = "loop"
     /\ cfg.uniqueBlocks
     /\ loc.i < Len(loc.ind)
     /\ loc.right_side >= 0
     /\ ~Skipped(loc)
     /\ Qualifies(loc, cfg))
        => loc.left[loc.i + 1] >= loc.right_side

\* C2: with uniqueBlocks unset, the count run returns is the number of
\* candidate epochs whose window meets every acceptance threshold.
C2_CountIsNumberOfQualifyingEpochs ==
    (pc = "returned" /\ ret.type = "dict" /\ ~cfg.uniqueBlocks)
        => ret.result = Cardinality(QualifyingEpochs(dataSlice, cfg))

C2_Witness ==
    /\ pc = "returned" /\ ret.type = "dict" /\ ~cfg.uniqueBlocks
    /\ ret.result >= 2
    /\ ret.result < Len(loc.ind)

\* C3: at every iteration of the candidate loop and in the returned aggregate,
\* result is the length of maxGap and of Nobs, every recorded maximum gap is
\* below peakGap and every recorded observation count is above Nbetween.
C3_AggregateConsistent ==
    /\ pc = "loop" =>
        /\ loc.result = Len(loc.maxGap)
        /\ loc.result = Len(loc.Nobs)
        /\ \A k \in 1..Len(loc.maxGap) : loc.maxGap[k] < cfg.peakGap * ZP(cfg)
        /\ \A k \in 1..Len(loc.Nobs) : loc.Nobs[k] > cfg.Nbetween
    /\ (pc \in {"returned", "reduced"} /\ ret.type = "dict") =>
        /\ ret.result = Len(ret.maxGap)
        /\ ret.result = Len(ret.Nobs)
        /\ \A k \in 1..Len(ret.maxGap) : ret.maxGap[k] < cfg.peakGap * ZP(cfg)
        /\ \A k \in 1..Len(ret.Nobs) : ret.Nobs[k] > cfg.Nbetween

C3_Witness ==
    /\ pc = "loop"
    /\ loc.i < Len(loc.ind)
    /\ loc.result >= 1
    /\ loc.i > loc.result

\* C4 (as claimed): when no row of the slice is in a valid filter, each of the
\* three reducers applied to what run returned yields the bad value.
C4_NoValidRowsReduceToBadValue ==
    (pc = "reduced" /\ ValidRows(dataSlice, cfg) = {}) => red.out = BadValue(cfg)

\* C5 (as claimed): when run returns an aggregate with empty arrays, each of
\* the three reducers returns the bad value.
C5_EmptyAggregateAllBad ==
    (pc = "reduced" /\ ret.type = "dict" /\ ret.maxGap = <<>> /\ ret.Nobs = <<>>)
        => red.out = BadValue(cfg)

\* C5 (amended): on an aggregate with empty arrays the two median reducers
\* return the bad value and reduceNsequences returns the count, 0; on an
\* aggregate with at least one sequence the median reducers return the medians
\* of the recorded arrays (gaps in rest-frame days) and reduceNsequences the count.
C5_ReducersOfAggregate ==
    (pc = "reduced" /\ ret.type = "dict") =>
        /\ red.out.kind = "value"
        /\ red.name = "reduceNsequences" => red.out.val = Rat(ret.result, 1)
        /\ red.name = "reduceMedianMaxGap" =>
             red.out.val = IF ret.maxGap = <<>> THEN Rat(cfg.badval, 1)
                           ELSE LET m == MedianOf(ret.maxGap)
                                IN  Rat(m[1], m[2] * ZP(cfg))
        /\ red.name = "reduceMedianNobs" =>
             red.out.val = IF ret.Nobs = <<>> THEN Rat(cfg.badval, 1)
                           ELSE MedianOf(ret.Nobs)

C5_Witness ==
    /\ pc = "reduced" /\ ret.type = "dict"
    /\ red.name = "reduceMedianMaxGap"
    /\ Len(ret.maxGap) >= 2

\* C6: a candidate that meets every threshold is never skipped while nothing
\* has been accepted, so if some candidate epoch meets every threshold the
\* count is at least 1 whatever uniqueBlocks is; and the count with
\* uniqueBlocks set is at most the count of the same slice with it unset.
C6_FirstQualifyingAcceptedAndUniqueAtMostAll ==
    /\ (pc = "loop" /\ loc.i < Len(loc.ind) /\ loc.result = 0 /\ Qualifies(loc, cfg))
        => ~Skipped(loc)
    /\ (pc = "returned" /\ ret.type = "dict") =>
        /\ QualifyingEpochs(dataSlice, cfg) # {} => ret.result >= 1
        /\ cfg.uniqueBlocks =>
             ret.result <= SNRun(dataSlice, [cfg EXCEPT !.uniqueBlocks = FALSE]).result

C6_Witness ==
    /\ pc = "returned" /\ ret.type = "dict" /\ cfg.uniqueBlocks
    /\ ret.result >= 1
    /\ ret.result < SNRun(dataSlice, [cfg EXCEPT !.uniqueBlocks = FALSE]).result

----------------------------------------------------------------------------
(* UniformityMetric and RapidRevisitMetric *)

\* 365.25, the days of a year, as a rational
DaysPerYear == <<1461, 4>>

\* a plausible slip: the offset taken from the smallest value, a[1], not a[2]
KSDeviationFirstOffset(a, den) ==
    LET n == Len(a)
    IN  Rat(SeqMax([i \in 1..n |-> Abs(i * den - n * (a[i] + a[1]))]), n * den)

\* np.max(np.abs(n_cum - dates - dates[1])) with n_cum = (1..n)/n, for the
\* ascending values a[i]/den (den > 0, n >= 2): dates[1] is the second smallest
KSDeviation(a, den) ==
    LET n == Len(a)
    IN  Rat(SeqMax([i \in 1..n |-> Abs(i * den - n * (a[i] + a[2]))]), n * den)

Number(r) == [type |-> "number", val |-> r]

\* a plausible slip: the single observation reported as the bad value
UniformityRunSingleBad(slice, c) ==
    IF Len(slice) = 1 THEN Number(Rat(c.badval, 1))
    ELSE IF Len(slice) = 0 THEN [type |-> "ValueError"]
    ELSE LET mjd == [j \in 1..Len(slice) |-> slice[j].mjd]
             num == [j \in 1..Len(mjd) |-> (mjd[j] - SeqMin(mjd)) * DaysPerYear[2]]
         IN  Number(KSDeviation(SortInts(num), c.surveyLength * DaysPerYear[1]))

\* UniformityMetric.run (surveyLength > 0).  The minimum of an empty column
\* raises ValueError.  dates = (mjd - min) / (surveyLength * 365.25), kept as
\* numerators over surveyLength * 1461.
UniformityRun(slice, c) ==
    IF Len(slice) = 1 THEN Number(Rat(1, 1))
    ELSE IF Len(slice) = 0 THEN [type |-> "ValueError"]
    ELSE LET mjd == [j \in 1..Len(slice) |-> slice[j].mjd]
             num == [j \in 1..Len(mjd) |-> (mjd[j] - SeqMin(mjd)) * DaysPerYear[2]]
         IN  Number(KSDeviation(SortInts(num), c.surveyLength * DaysPerYear[1]))

\* a plausible slip: minNvisits kept as it was given
RapidRevisitInitAsGiven(minNvisits, dTmin, dTmax, badval) ==
    [minNvisits |-> minNvisits, dTmin |-> dTmin, dTmax |-> dTmax, badval |-> badval]

\* RapidRevisitMetric.__init__: a minNvisits of 1 or less becomes 2
RapidRevisitInit(minNvisits, dTmin, dTmax, badval) ==
    [minNvisits |-> IF minNvisits <= 1 THEN 2 ELSE minNvisits,
     dTmin |-> dTmin, dTmax |-> dTmax, badval |-> badval]

\* np.diff of a sequence
Diff(s) == [j \in 1..(Len(s) - 1) |-> s[j + 1] - s[j]]

\* a plausible slip: the interval taken open at dTmax
RapidRevisitGoodOpen(dtimes, c) ==
    SelectSeq(dtimes, LAMBDA d : d >= c.dTmin /\ d < c.dTmax)

\* dtimes[good]: the gaps with dTmin <= gap <= dTmax
RapidRevisitGood(dtimes, c) ==
    SelectSeq(dtimes, LAMBDA d : d >= c.dTmin /\ d <= c.dTmax)

\* RapidRevisitMetric.run (dTmin < dTmax).  Past the bad-value check,
\* dtimes.min() of no gap raises ValueError and dtimes[1] of one gap raises
\* IndexError.
RapidRevisitRun(slice, c) ==
    LET dtimes == Diff(SortInts([j \in 1..Len(slice) |-> slice[j].mjd]))
        good == RapidRevisitGood(dtimes, c)
    IN  IF Len(good) < c.minNvisits THEN Number(Rat(c.badval, 1))
        ELSE IF Len(good) = 0 THEN [type |-> "ValueError"]
        ELSE IF Len(good) = 1 THEN [type |-> "IndexError"]
        ELSE LET sorted == SortInts(good)
                 scaled == [j \in 1..Len(sorted) |-> sorted[j] - SeqMin(sorted)]
             IN  Number(KSDeviation(scaled, c.dTmax - c.dTmin))

----------------------------------------------------------------------------
(* The slices and configurations these two metrics are run on *)

\* the slices of at most MaxObs rows, in any order, with times on a grid
TimeSlices(step) ==
    UNION {[1..n -> {[mjd |-> k * step] : k \in 0..MaxK}] : n \in 0..MaxObs}

\* the grid step of the uniformity slices: a third of four years, 487 days
UniformityStep == (4 * DaysPerYear[1]) \div (3 * DaysPerYear[2])

UniformityConfigs == [surveyLength : {4, 8}, badval : {-666, -1}]

RapidRevisitConfigs ==
    {RapidRevisitInit(m, d[1], d[2], -666) :
        m \in 0..3, d \in {<<1, 2>>, <<1, 3>>, <<0, 2>>}}

InitCadence ==
    /\ \/ /\ metric = "UniformityMetric"
          /\ cfg \in UniformityConfigs
          /\ dataSlice \in TimeSlices(UniformityStep)
       \/ /\ metric = "RapidRevisitMetric"
          /\ cfg \in RapidRevisitConfigs
          /\ dataSlice \in TimeSlices(1)
    /\ pc = "start"
    /\ loc = NoLoc
    /\ ret = NoRet
    /\ red = NoRed

RunUniformity ==
    /\ metric = "UniformityMetric"
    /\ pc = "start"
    /\ ret' = UniformityRun(dataSlice, cfg)
    /\ pc' = "returned"
    /\ UNCHANGED <<metric, cfg, dataSlice, loc, red>>

RunRapidRevisit ==
    /\ metric = "RapidRevisitMetric"
    /\ pc = "start"
    /\ ret' = RapidRevisitRun(dataSlice, cfg)
    /\ pc' = "returned"
    /\ UNCHANGED <<metric, cfg, dataSlice, loc, red>>

NextCadence ==
    \/ RunUniformity
    \/ RunRapidRevisit

SpecCadence == InitCadence /\ [][NextCadence]_vars

----------------------------------------------------------------------------
(* What the two statistics are specified to be, stated on the caller's slice *)

\* the times of the slice
TimesOf(slice) == [j \in 1..Len(slice) |-> slice[j].mjd]

\* surveyLength * 365.25 days, as a rational
SurveyDays(c) == Rat(c.surveyLength * DaysPerYear[1], DaysPerYear[2])

\* the largest of a non-empty set of rationals
RatMax(S) == CHOOSE x \in S : \A y \in S : RatLeq(y, x)

\* max over i of |i/N - d_i - d_2| for the values d_i = (Kth(s, i) - Kth(s, 1)) / scale
\* (scale a positive rational, N = Len(s) >= 2)
Statistic(s, scale) ==
    LET N == Len(s)
        d(i) == (Kth(s, i) - Kth(s, 1)) * scale[2]
    IN  RatMax({Rat(Abs(i * scale[1] - N * (d(i) + d(2))), N * scale[1]) : i \in 1..N})

\* the gaps between observations consecutive in time that lie in [dTmin, dTmax],
\* in order of time
SelectedGaps(slice, c) ==
    LET t == TimesOf(slice)
        gaps == [j \in 1..(Len(t) - 1) |-> Kth(t, j + 1) - Kth(t, j)]
    IN  SelectSeq(gaps, LAMBDA g : c.dTmin <= g /\ g <= c.dTmax)

\* N >= 2 times evenly spaced from 0 to surveyLength * 365.25, both ends included
EvenlySpacedAcross(slice, c) ==
    LET t == TimesOf(slice)
        N == Len(t)
    IN  /\ N >= 2
        /\ \A i \in 1..N :
             Kth(t, i) * (N - 1) * SurveyDays(c)[2] = (i - 1) * SurveyDays(c)[1]

\* N >= 2 times spaced surveyLength * 365.25 / N apart
SpacedByNth(slice, c) ==
    LET t == TimesOf(slice)
        N == Len(t)
    IN  /\ N >= 2
        /\ \A i \in 1..N :
             (Kth(t, i) - Kth(t, 1)) * N * SurveyDays(c)[2] = (i - 1) * SurveyDays(c)[1]

----------------------------------------------------------------------------
(* Claims about UniformityMetric and RapidRevisitMetric *)

\* C7: run on a slice with exactly one observation returns exactly 1, whatever
\* the bad value and surveyLength are.
C7_SingleObservationGivesOne ==
    (pc = "returned" /\ metric = "UniformityMetric" /\ Len(dataSlice) = 1)
        => ret = Number(<<1, 1>>)

C7_Witness ==
    /\ pc = "returned" /\ metric = "UniformityMetric" /\ Len(dataSlice) = 1
    /\ cfg.badval # -666
    /\ cfg.surveyLength = 8

\* C8 (as claimed): on N >= 2 times evenly spaced across
\* [0, surveyLength * 365.25] run returns 0.
C8_EvenlySpacedAcrossGivesZero ==
    (pc = "returned" /\ metric = "UniformityMetric" /\ EvenlySpacedAcross(dataSlice, cfg))
        => ret = Number(<<0, 1>>)

\* C8 (amended): on N >= 2 times run returns max_i |i/N - d_i - d_2| with d the
\* sorted times rescaled by (time - min) / (surveyLength * 365.25); this is 0
\* when the times are spaced surveyLength * 365.25 / N apart, and 1/(N-1) when
\* they are evenly spaced across [0, surveyLength * 365.25] with both ends.
C8_UniformityStatistic ==
    (pc = "returned" /\ metric = "UniformityMetric" /\ Len(dataSlice) >= 2) =>
        /\ ret = Number(Statistic(TimesOf(dataSlice), SurveyDays(cfg)))
        /\ SpacedByNth(dataSlice, cfg) => ret = Number(<<0, 1>>)
        /\ EvenlySpacedAcross(dataSlice, cfg) => ret = Number(Rat(1, Len(dataSlice) - 1))

C8_Witness ==
    /\ pc = "returned" /\ metric = "UniformityMetric"
    /\ Len(dataSlice) >= 3
    /\ SpacedByNth(dataSlice, cfg)
    /\ dataSlice[1].mjd > dataSlice[2].mjd

\* C9 (as claimed): run of UniformityMetric on >= 2 observations whose time span
\* is at most surveyLength * 365.25 days returns a value in [0, 1], and so does
\* run of RapidRevisitMetric whenever it does not return the bad value.
C9_StatisticWithinUnitInterval ==
    /\ (/\ pc = "returned" /\ metric = "UniformityMetric" /\ Len(dataSlice) >= 2
        /\ (SeqMax(TimesOf(dataSlice)) - SeqMin(TimesOf(dataSlice))) * SurveyDays(cfg)[2]
             <= SurveyDays(cfg)[1])
        => /\ ret.type = "number"
           /\ RatLeq(<<0, 1>>, ret.val) /\ RatLeq(ret.val, <<1, 1>>)
    /\ (/\ pc = "returned" /\ metric = "RapidRevisitMetric"
        /\ ret # Number(Rat(cfg.badval, 1)))
        => /\ ret.type = "number"
           /\ RatLeq(<<0, 1>>, ret.val) /\ RatLeq(ret.val, <<1, 1>>)

\* C10: run of RapidRevisitMetric returns the bad value when fewer than
\* minNvisits (as held by the instance) gaps between observations consecutive
\* in time lie in [dTmin, dTmax]; otherwise it returns max_i |i/n - g_i - g_2|
\* over the n selected gaps sorted and rescaled by (gap - min gap) / (dTmax - dTmin).
C10_RapidRevisitBadValueOrStatistic ==
    (pc = "returned" /\ metric = "RapidRevisitMetric") =>
        LET sel == SelectedGaps(dataSlice, cfg)
        IN  IF Len(sel) < cfg.minNvisits THEN ret = Number(Rat(cfg.badval, 1))
            ELSE ret = Number(Statistic(sel, <<cfg.dTmax - cfg.dTmin, 1>>))

C10_Witness ==
    /\ pc = "returned" /\ metric = "RapidRevisitMetric"
    /\ Len(SelectedGaps(dataSlice, cfg)) >= cfg.minNvisits
    /\ Len(SelectedGaps(dataSlice, cfg)) < Len(dataSlice) - 1
    /\ ret.val # <<0, 1>>

----------------------------------------------------------------------------
(* NRevisitsMetric *)

\* the minutes of a day, 60 * 24
MinutesPerDay == 60 * 24

\* NRevisitsMetric.__init__: dT is given in minutes and kept in days
NRevisitsInit(dT, normed, badval) ==
    [dT |-> Rat(dT, MinutesPerDay), normed |-> normed, badval |-> badval]

\* a plausible slip: the gaps strictly below dT
NRevisitsFastStrict(dtimes, c) ==
    SelectSeq(dtimes, LAMBDA d : RatLess(<<d, 1>>, c.dT))

\* dtimes[np.where(dtimes <= self.dT)]
NRevisitsFast(dtimes, c) ==
    SelectSeq(dtimes, LAMBDA d : RatLeq(<<d, 1>>, c.dT))

\* NRevisitsMetric.run.  np.size is a Python int, so the normed count of an
\* empty slice, 0 / float(0), raises ZeroDivisionError.
NRevisitsRun(slice, c) ==
    LET dtimes == Diff(SortInts([j \in 1..Len(slice) |-> slice[j].mjd]))
        nFastRevisits == Len(NRevisitsFast(dtimes, c))
    IN  IF c.normed
        THEN IF Len(slice) = 0 THEN [type |-> "ZeroDivisionError"]
             ELSE Number(Rat(nFastRevisits, Len(slice)))
        ELSE Number(Rat(nFastRevisits, 1))

\* the values of dT, in minutes, the instances are built with
NRevisitsMinutes == {30, MinutesPerDay, 2 * MinutesPerDay}

NRevisitsConfigs ==
    {NRevisitsInit(m, n, -666) : m \in NRevisitsMinutes, n \in BOOLEAN}

----------------------------------------------------------------------------
(* IntraNightGapsMetric *)

\* the order of ndarray.sort(order=timeCol) on rows of dtype (mjd, night): by
\* time, ties broken by the remaining field
GapVisitLeq(a, b) == a.mjd < b.mjd \/ (a.mjd = b.mjd /\ a.night <= b.night)

\* a plausible slip: the rows sorted latest first
RECURSIVE SortLatestFirst(_)
SortLatestFirst(s) ==
    IF s = <<>> THEN <<>>
    ELSE LET v == s[Len(s)]
             r == SortLatestFirst(SubSeq(s, 1, Len(s) - 1))
             k == Cardinality({j \in 1..Len(r) : GapVisitLeq(v, r[j])})
         IN  SubSeq(r, 1, k) \o <<v>> \o SubSeq(r, k + 1, Len(r))

\* dataSlice.sort(order=self.timeCol)
RECURSIVE SortByTime(_)
SortByTime(s) ==
    IF s = <<>> THEN <<>>
    ELSE LET v == s[Len(s)]
             r == SortByTime(SubSeq(s, 1, Len(s) - 1))
             k == Cardinality({j \in 1..Len(r) : GapVisitLeq(r[j], v)})
         IN  SubSeq(r, 1, k) \o <<v>> \o SubSeq(r, k + 1, Len(r))

RECURSIVE SumSeq(_)
SumSeq(s) == IF s = <<>> THEN 0 ELSE s[1] + SumSeq(Tail(s))

\* self.reduceFunc on a non-empty array of integers: np.median (the default)
\* or np.mean
ReduceFunc(c, s) ==
    IF c.reduceFunc = "median" THEN MedianInts(s) ELSE Rat(SumSeq(s), Len(s))

\* the rational r times the integer k
Times(r, k) == Rat(r[1] * k, r[2])

\* the hours of a day
HoursPerDay == 24

\* a plausible slip: the pairs whose night does not decrease
IntraNightGoodNotEarlier(dn) ==
    SelectSeq([j \in 1..Len(dn) |-> j], LAMBDA j : dn[j] >= 0)

\* np.where(dn == 0): the positions of the pairs within one night
IntraNightGood(dn) ==
    SelectSeq([j \in 1..Len(dn) |-> j], LAMBDA j : dn[j] = 0)

\* IntraNightGapsMetric.run on the slice as sorted in place
IntraNightGapsRun(sorted, c) ==
    LET dt == Diff([j \in 1..Len(sorted) |-> sorted[j].mjd])
        dn == Diff([j \in 1..Len(sorted) |-> sorted[j].night])
        good == IntraNightGood(dn)
    IN  IF Len(good) = 0 THEN Number(Rat(c.badval, 1))
        ELSE Number(Times(ReduceFunc(c, [q \in 1..Len(good) |-> dt[good[q]]]), HoursPerDay))

\* the instances of the metrics that take a reducer
GapConfigs == [reduceFunc : {"median", "mean"}, badval : {-666}]

\* last time (days) and most rows of the slices with a night column
MaxGapT == 2
MaxGapObs == 3

GapVisits == {[mjd |-> t, night |-> n] : t \in 0..MaxGapT, n \in 0..2}

\* the slices of at most MaxGapObs rows, in any order
GapSlices == UNION {[1..n -> GapVisits] : n \in 0..MaxGapObs}

----------------------------------------------------------------------------
(* InterNightGapsMetric *)

\* a plausible slip: the position after the last row of the night
LastOfNightUnstepped(nights, u) == SearchSorted(nights, u, "right")

\* np.searchsorted(nights, u, side='right') - 1, a 0-based position
LastOfNight(nights, u) == SearchSorted(nights, u, "right") - 1

\* InterNightGapsMetric.run on the slice as sorted in place; np.searchsorted
\* needs the night column ascending after the sort
InterNightGapsRun(sorted, c) ==
    LET times == [j \in 1..Len(sorted) |-> sorted[j].mjd]
        nights == [j \in 1..Len(sorted) |-> sorted[j].night]
        unights == SetToSeq({nights[j] : j \in 1..Len(nights)})
    IN  IF Len(unights) < 2 THEN Number(Rat(c.badval, 1))
        ELSE LET firstOfNight == [k \in 1..Len(unights) |->
                                     SearchSorted(nights, unights[k], "left")]
                 lastOfNight == [k \in 1..Len(unights) |-> LastOfNight(nights, unights[k])]
                 diff == [k \in 1..(Len(unights) - 1) |->
                             times[firstOfNight[k + 1] + 1] - times[lastOfNight[k] + 1]]
             IN  Number(ReduceFunc(c, diff))

\* the night column is ascending once the rows are sorted by time
NightsAscend(slice) ==
    \A i, j \in 1..Len(slice) : slice[i].mjd < slice[j].mjd => slice[i].night <= slice[j].night

\* the slices InterNightGapsMetric is run on
NightlySlices == {s \in GapSlices : NightsAscend(s)}

----------------------------------------------------------------------------
(* AveGapMetric *)

\* the float not-a-number, what np.median and np.mean give for an empty array
NaN == [type |-> "nan"]

\* AveGapMetric.run on the slice as sorted in place: the reducer is applied to
\* the differences unguarded
AveGapRun(sorted, c) ==
    LET diff == Diff([j \in 1..Len(sorted) |-> sorted[j].mjd])
    IN  IF diff = <<>> THEN NaN
        ELSE Number(Times(ReduceFunc(c, diff), HoursPerDay))

----------------------------------------------------------------------------
(* TemplateExistsMetric *)

\* the order of ndarray.sort(order=expMJDCol) on rows of dtype (mjd, seeing)
TemplateVisitLeq(a, b) == a.mjd < b.mjd \/ (a.mjd = b.mjd /\ a.seeing <= b.seeing)

\* a plausible slip: one pass over the rows, swapping neighbours out of order
RECURSIVE SortTemplatesOnePass(_)
SortTemplatesOnePass(s) ==
    IF Len(s) < 2 THEN s
    ELSE IF TemplateVisitLeq(s[1], s[2]) THEN <<s[1]>> \o SortTemplatesOnePass(Tail(s))
    ELSE <<s[2]>> \o SortTemplatesOnePass(<<s[1]>> \o Tail(Tail(s)))

\* dataSlice.sort(order=self.expMJDCol)
RECURSIVE SortTemplates(_)
SortTemplates(s) ==
    IF s = <<>> THEN <<>>
    ELSE LET v == s[Len(s)]
             r == SortTemplates(SubSeq(s, 1, Len(s) - 1))
             k == Cardinality({j \in 1..Len(r) : TemplateVisitLeq(r[j], v)})
         IN  SubSeq(r, 1, k) \o <<v>> \o SubSeq(r, k + 1, Len(r))

\* np.minimum.accumulate
MinimumAccumulate(a) == [i \in 1..Len(a) |-> SeqMin(SubSeq(a, 1, i))]

\* np.roll(a, 1): the last element comes first
Roll(a) == [i \in 1..Len(a) |-> IF i = 1 THEN a[Len(a)] ELSE a[i - 1]]

\* a plausible slip: the first image counted with the others
TemplateExistsRunCountingFirst(sorted) ==
    LET seeing == [j \in 1..Len(sorted) |-> sorted[j].seeing]
        seeing_mins == [i \in 1..Len(seeing) |-> SeqMin(SubSeq(seeing, 1, i))]
        good == {j \in 1..Len(seeing) :
                    seeing[j] - seeing_mins[IF j = 1 THEN Len(seeing) ELSE j - 1] >= 0}
    IN  IF Len(sorted) = 0 THEN [type |-> "ZeroDivisionError"]
        ELSE Number(Rat(Cardinality(good), Len(sorted)))

\* TemplateExistsMetric.run on the slice as sorted in place.  The sizes are
\* Python ints, so on an empty slice 0 / float(0) raises ZeroDivisionError.
TemplateExistsRun(sorted) ==
    LET seeing == [j \in 1..Len(sorted) |-> sorted[j].seeing]
        seeing_mins == MinimumAccumulate(seeing)
        rolled == Roll(seeing_mins)
        seeing_diff == [j \in 1..Len(seeing) |-> seeing[j] - rolled[j]]
        good == {j \in 2..Len(seeing) : seeing_diff[j] >= 0}
    IN  IF Len(sorted) = 0 THEN [type |-> "ZeroDivisionError"]
        ELSE Number(Rat(Cardinality(good), Len(sorted)))

TemplateVisits == {[mjd |-> t, seeing |-> s] : t \in 0..MaxGapT, s \in {7, 9}}

\* the slices of at most MaxGapObs rows with a seeing column, in any order
TemplateSlices == UNION {[1..n -> TemplateVisits] : n \in 0..MaxGapObs}

TemplateConfigs == [badval : {-666}]

----------------------------------------------------------------------------
(* AstroPrecMetric (operations/maf/metrics/astroPrecMetric.py).  The visits *)
(* and instances are drawn so that every power of ten has a whole exponent  *)
(* and every square root is taken of the square of a rational.              *)

RatAdd(a, b) == Rat(a[1] * b[2] + b[1] * a[2], a[2] * b[2])
RatSub(a, b) == Rat(a[1] * b[2] - b[1] * a[2], a[2] * b[2])
RatMul(a, b) == Rat(a[1] * b[1], a[2] * b[2])
RatDiv(a, b) == Rat(a[1] * b[2], a[2] * b[1])

\* 10.**e for a rational e with a whole value
Pow10(e) == IF e[1] >= 0 THEN <<10 ^ e[1], 1>> ELSE <<1, 10 ^ (-e[1])>>

\* the integer square root of n, sought in lo..hi
RECURSIVE ISqrt(_, _, _)
ISqrt(n, lo, hi) ==
    IF lo >= hi THEN lo
    ELSE LET mid == (lo + hi + 1) \div 2
         IN  IF mid <= n \div mid THEN ISqrt(n, mid, hi) ELSE ISqrt(n, lo, mid - 1)

\* x**0.5 for x the square of a non-negative rational
RatSqrt(x) == <<ISqrt(x[1], 0, x[1]), ISqrt(x[2], 0, x[2])>>

RECURSIVE RatSum(_)
RatSum(s) == IF s = <<>> THEN <<0, 1>> ELSE RatAdd(s[1], RatSum(Tail(s)))

\* a plausible slip: the sign of the exponent lost
m52snrBrighter(m, m5) == RatMul(<<5, 1>>, Pow10(RatMul(<<2, 5>>, RatSub(m, m5))))

\* m52snr: 5.*10.**(-0.4*(m-m5))
m52snr(m, m5) == RatMul(<<5, 1>>, Pow10(RatMul(<<-2, 5>>, RatSub(m, m5))))

\* AstroPrecMetric.run(dataSlice); the mean of an empty array is not-a-number
AstroPrecRun(slice, c) ==
    IF Len(slice) = 0 THEN NaN
    ELSE LET snr == [j \in 1..Len(slice) |-> m52snr(c.mag, slice[j].m5)]
             ratio == [j \in 1..Len(slice) |-> RatDiv(slice[j].seeing, snr[j])]
             result == [j \in 1..Len(slice) |->
                           RatSqrt(RatAdd(RatMul(ratio[j], ratio[j]),
                                          RatMul(c.atm_limit, c.atm_limit)))]
         IN  Number(RatMul(RatDiv(RatSum(result), <<Len(slice), 1>>), <<1000, 1>>))

\* the slice point of a call: left out, None, or a dictionary
SlicePoints == {[type |-> "omitted"], [type |-> "None"], [type |-> "dict", sid |-> 0]}

\* calling AstroPrecMetric.run with a slice point: run takes the slice only
AstroPrecCall(slice, c, slicePoint) ==
    IF slicePoint.type = "omitted" THEN AstroPrecRun(slice, c)
    ELSE [type |-> "TypeError"]

\* mag = 20 (the default) and atm_limit = 0.01 (the default) or 0.02
AstroPrecConfigs == [mag : {<<20, 1>>}, atm_limit : {<<1, 100>>, <<1, 50>>}, badval : {-666}]

\* seeing (arcsec) and five-sigma depth (mag) of the visits drawn: with
\* mag = 20 the ratios seeing/snr are 3/400, 3/400 and 1/75, which with
\* atm_limit = 1/100 give the precisions 1/80, 1/80 and 1/60
VisitsForDefaultLimit ==
    {[seeing |-> <<3, 8>>, m5 |-> <<45, 2>>], [seeing |-> <<3, 80>>, m5 |-> <<20, 1>>],
     [seeing |-> <<2, 3>>, m5 |-> <<45, 2>>]}

\* the ratios seeing/snr are 3/200, 3/200 and 2/75, which with
\* atm_limit = 1/50 give the precisions 1/40, 1/40 and 1/30
VisitsForDoubleLimit ==
    {[seeing |-> <<3, 4>>, m5 |-> <<45, 2>>], [seeing |-> <<3, 40>>, m5 |-> <<20, 1>>],
     [seeing |-> <<4, 3>>, m5 |-> <<45, 2>>]}

\* the visits whose precision under instance c is a rational
ExactVisits(c) ==
    IF c.atm_limit = <<1, 100>> THEN VisitsForDefaultLimit ELSE VisitsForDoubleLimit

\* the slices of at most MaxGapObs such visits, in any order
AstroSlices(c) == UNION {[1..n -> ExactVisits(c)] : n \in 0..MaxGapObs}

----------------------------------------------------------------------------
(* The gap metrics as a state machine: one invocation of run.  loc.given   *)
(* keeps the rows of the slice in the order the caller passed them.        *)

InitGaps ==
    /\ \/ /\ metric = "NRevisitsMetric"
          /\ cfg \in NRevisitsConfigs
          /\ dataSlice \in TimeSlices(1)
       \/ /\ metric = "IntraNightGapsMetric"
          /\ cfg \in GapConfigs
          /\ dataSlice \in GapSlices
       \/ /\ metric = "InterNightGapsMetric"
          /\ cfg \in GapConfigs
          /\ dataSlice \in NightlySlices
       \/ /\ metric = "AveGapMetric"
          /\ cfg \in GapConfigs
          /\ dataSlice \in GapSlices
       \/ /\ metric = "TemplateExistsMetric"
          /\ cfg \in TemplateConfigs
          /\ dataSlice \in TemplateSlices
    /\ pc = "start"
    /\ loc = [given |-> dataSlice]
    /\ ret = NoRet
    /\ red = NoRed

\* np.sort returns a copy: the slice is left as it was
RunNRevisits ==
    /\ metric = "NRevisitsMetric"
    /\ pc = "start"
    /\ ret' = NRevisitsRun(dataSlice, cfg)
    /\ pc' = "returned"
    /\ UNCHANGED <<metric, cfg, dataSlice, loc, red>>

\* the slice is sorted in place, then measured
RunIntraNightGaps ==
    /\ metric = "IntraNightGapsMetric"
    /\ pc = "start"
    /\ dataSlice' = SortByTime(dataSlice)
    /\ ret' = IntraNightGapsRun(dataSlice', cfg)
    /\ pc' = "returned"
    /\ UNCHANGED <<metric, cfg, loc, red>>

RunInterNightGaps ==
    /\ metric = "InterNightGapsMetric"
    /\ pc = "start"
    /\ dataSlice' = SortByTime(dataSlice)
    /\ ret' = InterNightGapsRun(dataSlice', cfg)
    /\ pc' = "returned"
    /\ UNCHANGED <<metric, cfg, loc, red>>

RunAveGap ==
    /\ metric = "AveGapMetric"
    /\ pc = "start"
    /\ dataSlice' = SortByTime(dataSlice)
    /\ ret' = AveGapRun(dataSlice', cfg)
    /\ pc' = "returned"
    /\ UNCHANGED <<metric, cfg, loc, red>>

RunTemplateExists ==
    /\ metric = "TemplateExistsMetric"
    /\ pc = "start"
    /\ dataSlice' = SortTemplates(dataSlice)
    /\ ret' = TemplateExistsRun(dataSlice')
    /\ pc' = "returned"
    /\ UNCHANGED <<metric, cfg, loc, red>>

NextGaps ==
    \/ RunNRevisits
    \/ RunIntraNightGaps
    \/ RunInterNightGaps
    \/ RunAveGap
    \/ RunTemplateExists

SpecGaps == InitGaps /\ [][NextGaps]_vars

----------------------------------------------------------------------------
(* Claims about the gap metrics *)

\* the number of pairs of observations consecutive in time that are at most
\* m minutes apart (times in days)
FastPairs(slice, m) ==
    LET t == TimesOf(slice)
    IN  Cardinality({j \in 1..(Len(t) - 1) :
                        (Kth(t, j + 1) - Kth(t, j)) * MinutesPerDay <= m})

TimeRank(slice, i) ==
    Cardinality({k \in 1..Len(slice) :
        \/ slice[k].mjd < slice[i].mjd
        \/ slice[k].mjd = slice[i].mjd /\ slice[k].night < slice[i].night
        \/ slice[k] = slice[i] /\ k <= i})

\* the rows of the slice in order of time
InTimeOrder(slice) ==
    [p \in 1..Len(slice) |-> slice[CHOOSE i \in 1..Len(slice) : TimeRank(slice, i) = p]]

\* the time differences of the pairs of rows consecutive in time that share
\* their night
SameNightGaps(slice) ==
    LET o == InTimeOrder(slice)
        pairs == SelectSeq([p \in 1..(Len(o) - 1) |-> p],
                           LAMBDA p : o[p].night = o[p + 1].night)
    IN  [q \in 1..Len(pairs) |-> o[pairs[q] + 1].mjd - o[pairs[q]].mjd]

\* the reducer of an instance on a non-empty sequence of integers
Reduced(c, s) ==
    IF c.reduceFunc = "median" THEN MedianOf(s) ELSE Rat(SumSeq(s), Len(s))

\* C12: run of IntraNightGapsMetric returns the bad value exactly when no two
\* observations consecutive in time share their night; otherwise it returns 24
\* times the reducer (median by default) of the time differences of exactly the
\* consecutive pairs with equal night.
C12_IntraNightGaps ==
    (pc = "returned" /\ metric = "IntraNightGapsMetric") =>
        LET gaps == SameNightGaps(loc.given)
        IN  /\ (gaps = <<>>) <=> (ret = Number(Rat(cfg.badval, 1)))
            /\ gaps # <<>> => ret = Number(Times(Reduced(cfg, gaps), 24))

C12_Witness ==
    /\ pc = "returned" /\ metric = "IntraNightGapsMetric"
    /\ Len(SameNightGaps(loc.given)) = 2
    /\ Len(loc.given) = 3
    /\ loc.given[1].mjd > loc.given[2].mjd
    /\ SameNightGaps(loc.given)[1] # SameNightGaps(loc.given)[2]
    /\ ret = Number(<<24, 1>>)

\* the nights of the slice
NightsOf(slice) == {slice[j].night : j \in 1..Len(slice)}

\* the times of the rows of night n
TimesOfNight(slice, n) == {slice[j].mjd : j \in {k \in 1..Len(slice) : slice[k].night = n}}

\* the pairs of nights of the slice with no night of the slice between them
ConsecutiveNights(slice) ==
    {p \in NightsOf(slice) \X NightsOf(slice) :
        p[1] < p[2] /\ ~ \E n \in NightsOf(slice) : p[1] < n /\ n < p[2]}

\* the first time of the later night minus the last time of the earlier night
GapBetween(slice, p) ==
    LET last == CHOOSE t \in TimesOfNight(slice, p[1]) :
                    \A u \in TimesOfNight(slice, p[1]) : u <= t
        first == CHOOSE t \in TimesOfNight(slice, p[2]) :
                     \A u \in TimesOfNight(slice, p[2]) : t <= u
    IN  first - last

\* one gap for each pair of consecutive nights, in order of night
NightGaps(slice) ==
    LET early == SetToSeq({p[1] : p \in ConsecutiveNights(slice)})
    IN  [k \in 1..Len(early) |->
            GapBetween(slice, CHOOSE p \in ConsecutiveNights(slice) : p[1] = early[k])]

\* C13: run of InterNightGapsMetric returns the bad value when the slice has
\* fewer than 2 distinct nights; otherwise, the nights being non-decreasing in
\* time, it returns the reducer of exactly one gap per pair of consecutive
\* distinct nights, each gap the first time of the later night minus the last
\* time of the earlier night, which is >= 0; two nights with one observation
\* each at t0 < t1 give t1 - t0.
C13_InterNightGaps ==
    (pc = "returned" /\ metric = "InterNightGapsMetric" /\ NightsAscend(loc.given)) =>
        LET gaps == NightGaps(loc.given)
        IN  /\ Cardinality(NightsOf(loc.given)) < 2 => ret = Number(Rat(cfg.badval, 1))
            /\ Cardinality(NightsOf(loc.given)) >= 2 =>
                /\ Len(gaps) = Cardinality(NightsOf(loc.given)) - 1
                /\ \A k \in 1..Len(gaps) : gaps[k] >= 0
                /\ ret = Number(Reduced(cfg, gaps))
            /\ (Len(loc.given) = 2 /\ loc.given[1].night # loc.given[2].night) =>
                ret = Number(<<Abs(loc.given[1].mjd - loc.given[2].mjd), 1>>)

C13_Witness ==
    /\ pc = "returned" /\ metric = "InterNightGapsMetric"
    /\ Cardinality(NightsOf(loc.given)) = 3
    /\ loc.given # dataSlice
    /\ NightGaps(loc.given) = <<0, 1>>
    /\ cfg.reduceFunc = "median"
    /\ ret = Number(<<1, 2>>)

\* the differences of the times consecutive in order of time
ConsecutiveGaps(slice) ==
    LET t == TimesOf(slice)
    IN  [j \in 1..(Len(t) - 1) |-> Kth(t, j + 1) - Kth(t, j)]

\* C14 (as claimed): run of AveGapMetric on fewer than 2 visits returns the bad
\* value; on 2 or more visits it returns 24 times the reducer of all the
\* consecutive time differences of the visits sorted by time.
C14_AveGapBadValueOrReducedGaps ==
    (pc = "returned" /\ metric = "AveGapMetric") =>
        IF Len(loc.given) < 2 THEN ret = Number(Rat(cfg.badval, 1))
        ELSE ret = Number(Times(Reduced(cfg, ConsecutiveGaps(loc.given)), 24))

----------------------------------------------------------------------------
(* Every metric as the framework invokes it: run(dataSlice) or               *)
(* run(dataSlice, slicePoint), once and then once more on the same slice    *)
(* object.  loc is the caller's record of the call: the rows as first         *)
(* passed (given), the slice point, and what the first invocation returned   *)
(* (first).                                                                  *)

\* the slices of at most MaxGapObs rows with a time column only
ShortTimeSlices(step) ==
    UNION {[1..n -> {[mjd |-> k * step] : k \in 0..MaxGapT}] : n \in 0..MaxGapObs}

\* most rows of the slices with a night column in this specification
MaxRunObs == 2

ShortGapSlices == UNION {[1..n -> GapVisits] : n \in 0..MaxRunObs}

\* the days of the rows of the shuffled slices: days 0, 2, 3, 5 make a
\* sequence that qualifies under LongConfigs
ShuffledDays == {0, 2, 3, 5, 7}

\* the single-filter slices of at most MaxObs rows, in any order
ShuffledSlices == UNION {[1..n -> {Visit(k, "g", 24) : k \in ShuffledDays}] : n \in 0..MaxObs}

InitRun ==
    /\ \/ /\ metric = "SupernovaMetric"
          /\ \/ cfg \in SNConfigs /\ dataSlice \in MixedSlices
             \/ cfg \in LongConfigs /\ dataSlice \in ShuffledSlices
       \/ /\ metric = "TemplateExistsMetric"
          /\ cfg \in TemplateConfigs
          /\ dataSlice \in TemplateSlices
       \/ /\ metric = "UniformityMetric"
          /\ cfg \in UniformityConfigs
          /\ dataSlice \in ShortTimeSlices(UniformityStep)
       \/ /\ metric = "RapidRevisitMetric"
          /\ cfg \in RapidRevisitConfigs
          /\ dataSlice \in ShortTimeSlices(1)
       \/ /\ metric = "NRevisitsMetric"
          /\ cfg \in NRevisitsConfigs
          /\ dataSlice \in ShortTimeSlices(1)
       \/ /\ metric \in {"IntraNightGapsMetric", "AveGapMetric"}
          /\ cfg \in GapConfigs
          /\ dataSlice \in ShortGapSlices
       \/ /\ metric = "InterNightGapsMetric"
          /\ cfg \in GapConfigs
          /\ dataSlice \in {s \in ShortGapSlices : NightsAscend(s)}
       \/ /\ metric = "AstroPrecMetric"
          /\ cfg \in AstroPrecConfigs
          /\ dataSlice \in AstroSlices(cfg)
    /\ pc = "start"
    /\ \E sp \in SlicePoints : loc = [given |-> dataSlice, slicePoint |-> sp, first |-> NoRet]
    /\ ret = NoRet
    /\ red = NoRed

\* run returns `result` and leaves `rows` in the caller's slice; the caller
\* notes what the invocation before it returned
Invoked(result, rows) ==
    /\ pc \in {"start", "returned"}
    /\ ret' = result
    /\ dataSlice' = rows
    /\ pc' = IF pc = "start" THEN "returned" ELSE "again"
    /\ loc' = [loc EXCEPT !.first = ret]
    /\ UNCHANGED <<metric, cfg, red>>

\* a plausible slip: the sort applied to the array the caller passed
SNCallerRowsSortedInPlace(slice) ==
    IF HasFilterColumn(slice) THEN SortVisits(slice) ELSE slice

\* the caller's array after SupernovaMetric.run: dataSlice[goodFilters] (line
\* 111) binds the local name to a copy and the sort of line 114 orders that
\* copy, so the array passed in is as it was
SNCallerRows(slice) == slice

InvokeSupernova ==
    /\ metric = "SupernovaMetric"
    /\ Invoked(SNRun(dataSlice, cfg), SNCallerRows(dataSlice))

InvokeTemplateExists ==
    /\ metric = "TemplateExistsMetric"
    /\ Invoked(TemplateExistsRun(SortTemplates(dataSlice)), SortTemplates(dataSlice))

InvokeUniformity ==
    /\ metric = "UniformityMetric"
    /\ Invoked(UniformityRun(dataSlice, cfg), dataSlice)

InvokeRapidRevisit ==
    /\ metric = "RapidRevisitMetric"
    /\ Invoked(RapidRevisitRun(dataSlice, cfg), dataSlice)

InvokeNRevisits ==
    /\ metric = "NRevisitsMetric"
    /\ Invoked(NRevisitsRun(dataSlice, cfg), dataSlice)

InvokeIntraNightGaps ==
    /\ metric = "IntraNightGapsMetric"
    /\ Invoked(IntraNightGapsRun(SortByTime(dataSlice), cfg), SortByTime(dataSlice))

InvokeInterNightGaps ==
    /\ metric = "InterNightGapsMetric"
    /\ Invoked(InterNightGapsRun(SortByTime(dataSlice), cfg), SortByTime(dataSlice))

InvokeAveGap ==
    /\ metric = "AveGapMetric"
    /\ Invoked(AveGapRun(SortByTime(dataSlice), cfg), SortByTime(dataSlice))

InvokeAstroPrec ==
    /\ metric = "AstroPrecMetric"
    /\ Invoked(AstroPrecCall(dataSlice, cfg, loc.slicePoint), dataSlice)

NextRun ==
    \/ InvokeSupernova
    \/ InvokeTemplateExists
    \/ InvokeUniformity
    \/ InvokeRapidRevisit
    \/ InvokeNRevisits
    \/ InvokeIntraNightGaps
    \/ InvokeInterNightGaps
    \/ InvokeAveGap
    \/ InvokeAstroPrec

SpecRun == InitRun /\ [][NextRun]_vars

----------------------------------------------------------------------------
(* Claims about every metric *)

\* the outcome is a number, not an error and not not-a-number
Defined(r) == r.type = "number"

\* C15 (as claimed): on a slice with zero visits no metric's run ends in an
\* error or returns not-a-number: the outcome is the bad value or a defined
\* number.
C15_EmptySliceGivesDefinedOutcome ==
    (pc = "returned" /\ loc.given = <<>>
        /\ (metric = "AstroPrecMetric" => loc.slicePoint.type = "omitted")) =>
            \/ Defined(ret)
            \/ ret = SNBadTuple(cfg)

\* the two slices hold the same rows, each as many times
SameRows(a, b) ==
    /\ Len(a) = Len(b)
    /\ \A j \in 1..Len(a) :
         Cardinality({k \in 1..Len(a) : a[k] = a[j]}) = Cardinality({k \in 1..Len(b) : b[k] = a[j]})

\* the metrics whose run sorts the caller's slice in place
SortingMetrics ==
    {"IntraNightGapsMetric", "InterNightGapsMetric", "AveGapMetric", "TemplateExistsMetric"}

\* C16 (as claimed): no invocation mutates the caller's slice: after run
\* returns the slice holds the same rows in the same order as before the call.
C16_SliceUntouched ==
    pc \in {"returned", "again"} => dataSlice = loc.given

\* C16 (amended): after run returns the caller's slice holds the same rows as
\* before the call; they are in the same order for SupernovaMetric,
\* UniformityMetric, RapidRevisitMetric, NRevisitsMetric and AstroPrecMetric,
\* and in order of observation time for IntraNightGapsMetric,
\* InterNightGapsMetric, AveGapMetric and TemplateExistsMetric.
C16_RowsKeptAndOrderKeptOrByTime ==
    pc \in {"returned", "again"} =>
        /\ SameRows(dataSlice, loc.given)
        /\ metric \notin SortingMetrics => dataSlice = loc.given
        /\ metric \in SortingMetrics =>
             \A j \in 1..(Len(dataSlice) - 1) : dataSlice[j].mjd <= dataSlice[j + 1].mjd

C16_Witness ==
    /\ pc = "returned" /\ metric = "AveGapMetric"
    /\ Len(dataSlice) = 2
    /\ dataSlice # loc.given
    /\ Defined(ret)

\* C17: invoking run twice in succession on the same slice object returns
\* identical results, also for the metrics whose first invocation reorders the
\* slice in place.
C17_SecondInvocationReturnsTheSame ==
    pc = "again" => ret = loc.first

C17_Witness ==
    /\ pc = "again" /\ metric = "TemplateExistsMetric"
    /\ dataSlice # loc.given
    /\ Len(dataSlice) = 3
    /\ ret = loc.first
    /\ ret = Number(<<1, 3>>)

\* what run of a metric of class m returns when called on the slice with the
\* slice point
Returned(m, slice, c, slicePoint) ==
    CASE m = "SupernovaMetric" -> SNRun(slice, c)
      [] m = "TemplateExistsMetric" -> TemplateExistsRun(SortTemplates(slice))
      [] m = "UniformityMetric" -> UniformityRun(slice, c)
      [] m = "RapidRevisitMetric" -> RapidRevisitRun(slice, c)
      [] m = "NRevisitsMetric" -> NRevisitsRun(slice, c)
      [] m = "IntraNightGapsMetric" -> IntraNightGapsRun(SortByTime(slice), c)
      [] m = "InterNightGapsMetric" -> InterNightGapsRun(SortByTime(slice), c)
      [] m = "AveGapMetric" -> AveGapRun(SortByTime(slice), c)
      [] m = "AstroPrecMetric" -> AstroPrecCall(slice, c, slicePoint)

\* C20 (as claimed): every metric can be invoked as run(slice, slicePoint) with
\* an optional slice point and the result does not depend on it: for any two
\* slice-point values, none included, and the same slice, run completes and
\* returns the same result.
C20_SlicePointAcceptedAndIgnored ==
    pc = "returned" =>
        /\ ret.type # "TypeError"
        /\ \A sp \in SlicePoints : Returned(metric, loc.given, cfg, sp) = ret

\* the rows of the slice rearranged by the permutation p of their places
Permuted(slice, p) == [j \in 1..Len(slice) |-> slice[p[j]]]

PermutationsOf(n) == {p \in [1..n -> 1..n] : \A i, j \in 1..n : p[i] = p[j] => i = j}

\* r = 1000 * sqrt((seeing / (5 * 10^(-0.4 * (mag - m5))))^2 + atm_limit^2) for
\* the visit v and instance c, for a whole exponent
IsSingleVisitValue(r, v, c) ==
    LET exponent == RatMul(<<-4, 10>>, RatSub(c.mag, v.m5))
        snr == RatMul(<<5, 1>>, Pow10(exponent))
        q == RatDiv(v.seeing, snr)
        s == RatDiv(r, <<1000, 1>>)
    IN  /\ exponent[2] = 1
        /\ r[1] >= 0
        /\ RatMul(s, s) = RatAdd(RatMul(q, q), RatMul(c.atm_limit, c.atm_limit))

\* C19: run of AstroPrecMetric on a non-empty slice whose seeing and depth are
\* the same for all visits returns the single-visit value
\* 1000 * sqrt((seeing / (5 * 10^(-0.4 * (mag - m5))))^2 + atm_limit^2), however
\* many the visits; and on any slice the result is the same for every
\* permutation of the visits.
C19_ConstantSliceGivesSingleVisitValue ==
    (pc = "returned" /\ metric = "AstroPrecMetric" /\ loc.slicePoint.type = "omitted") =>
        /\ (loc.given # <<>> /\ \A j \in 1..Len(loc.given) : loc.given[j] = loc.given[1])
             => ret.type = "number" /\ IsSingleVisitValue(ret.val, loc.given[1], cfg)
        /\ \A p \in PermutationsOf(Len(loc.given)) :
             AstroPrecRun(Permuted(loc.given, p), cfg) = ret

C19_Witness ==
    /\ pc = "returned" /\ metric = "AstroPrecMetric" /\ loc.slicePoint.type = "omitted"
    /\ Len(loc.given) = 3
    /\ \A j \in 1..3 : loc.given[j] = [seeing |-> <<3, 8>>, m5 |-> <<45, 2>>]
    /\ cfg.atm_limit = <<1, 100>>
    /\ ret = Number(<<25, 2>>)

----------------------------------------------------------------------------
(* Two invocations of run on one instance, interleaved.  The instance (cfg) *)
(* is shared; dataSlice, pc, loc and ret hold, per invocation, its slice,    *)
(* its position in run, its local variables and its return value.           *)

Invocations == {1, 2}

\* a plausible slip: the loop state kept on the instance, where every
\* invocation reads and writes the same copy
StoreOnInstance(locals, k, frame) == [j \in DOMAIN locals |-> frame]

\* an assignment to the local variables of run: they belong to invocation k
Store(locals, k, frame) == [locals EXCEPT ![k] = frame]

\* single-filter slices over the slots 0..MaxT
DenseSlices == {SlotSeq(a, MaxT) : a \in [0..MaxT -> {<<"g", 24>>, <<>>}]}

\* the slices with rows in ascending order of distinct times
AscendingSlices ==
    {s \in ShortTimeSlices(1) : \A j \in 1..(Len(s) - 1) : s[j].mjd < s[j + 1].mjd}

InitConcurrent ==
    /\ \/ /\ metric = "SupernovaMetric"
          /\ cfg \in LongConfigs
          /\ dataSlice \in {s \in DenseSlices : Len(s) >= MaxT} \X DenseSlices
       \/ /\ metric = "RapidRevisitMetric"
          /\ cfg \in RapidRevisitConfigs
          /\ dataSlice \in AscendingSlices \X ShortTimeSlices(1)
    /\ pc = [k \in Invocations |-> "start"]
    /\ loc = [k \in Invocations |-> NoLoc]
    /\ ret = [k \in Invocations |-> NoRet]
    /\ red = NoRed

\* lines 109-135 in invocation k
StartSupernova(k) ==
    /\ metric = "SupernovaMetric"
    /\ pc[k] = "start"
    /\ IF goodFilters(dataSlice[k], cfg) = <<>>
       THEN /\ ret' = [ret EXCEPT ![k] = SNBadTuple(cfg)]
            /\ pc' = [pc EXCEPT ![k] = "returned"]
            /\ loc' = loc
       ELSE /\ loc' = Store(loc, k, SNSetup(dataSlice[k], cfg))
            /\ pc' = [pc EXCEPT ![k] = "loop"]
            /\ ret' = ret
    /\ UNCHANGED <<metric, cfg, dataSlice, red>>

\* lines 136-167 in invocation k: one candidate
IterateSupernova(k) ==
    /\ pc[k] = "loop"
    /\ loc[k].i < Len(loc[k].ind)
    /\ loc' = Store(loc, k, SNBody(loc[k], cfg))
    /\ UNCHANGED <<metric, cfg, dataSlice, pc, ret, red>>

\* lines 168-170 in invocation k
ReturnSupernova(k) ==
    /\ pc[k] = "loop"
    /\ loc[k].i >= Len(loc[k].ind)
    /\ ret' = [ret EXCEPT ![k] = SNResult(loc[k])]
    /\ pc' = [pc EXCEPT ![k] = "returned"]
    /\ UNCHANGED <<metric, cfg, dataSlice, loc, red>>

\* RapidRevisitMetric.run in invocation k
RunRapidRevisitOf(k) ==
    /\ metric = "RapidRevisitMetric"
    /\ pc[k] = "start"
    /\ ret' = [ret EXCEPT ![k] = RapidRevisitRun(dataSlice[k], cfg)]
    /\ pc' = [pc EXCEPT ![k] = "returned"]
    /\ UNCHANGED <<metric, cfg, dataSlice, loc, red>>

NextConcurrent ==
    \/ \E k \in Invocations : StartSupernova(k)
    \/ \E k \in Invocations : IterateSupernova(k)
    \/ \E k \in Invocations : ReturnSupernova(k)
    \/ \E k \in Invocations : RunRapidRevisitOf(k)

SpecConcurrent == InitConcurrent /\ [][NextConcurrent]_vars

\* C18: run never modifies the metric instance: every configuration field is
\* after any step of any invocation what it was at construction; and each of
\* two interleaved invocations of one instance on their own slices returns
\* what that invocation returns when it runs alone.
C18_InstanceUnchangedAndInvocationsIndependent ==
    /\ [][cfg' = cfg]_vars
    /\ [](\A k \in Invocations :
            pc[k] = "returned" =>
                ret[k] = Returned(metric, dataSlice[k], cfg, [type |-> "omitted"]))

C18_Witness ==
    /\ metric = "SupernovaMetric"
    /\ pc[1] = "loop" /\ loc[1].i = 2 /\ loc[1].result = 1
    /\ pc[2] = "returned"
    /\ ret[2].type = "dict" /\ ret[2].result >= 2
    /\ dataSlice[1] # dataSlice[2]

----------------------------------------------------------------------------
(* Further claims about every metric of cadenceMetrics.py *)

\* no two rows of the slice have the same observation time
DistinctTimes(slice) ==
    \A i, j \in 1..Len(slice) : slice[i].mjd = slice[j].mjd => i = j

\* C21: for every metric of cadenceMetrics.py and every slice with pairwise
\* distinct observation times, run on any permutation of the rows returns what
\* it returns on the rows in their original order.
C21_ResultIndependentOfRowOrder ==
    (pc = "returned" /\ metric # "AstroPrecMetric" /\ DistinctTimes(loc.given)) =>
        \A p \in PermutationsOf(Len(loc.given)) :
            Returned(metric, Permuted(loc.given, p), cfg, loc.slicePoint) = ret

C21_Witness ==
    /\ pc = "returned" /\ metric = "SupernovaMetric"
    /\ DistinctTimes(loc.given)
    /\ Len(loc.given) = 4
    /\ loc.given[1].mjd > loc.given[2].mjd /\ loc.given[3].mjd > loc.given[4].mjd
    /\ ret.type = "dict" /\ ret.result >= 1


----------------------------------------------------------------------------
(* Further claims about SupernovaMetric.run *)

\* the rows at the positions W of a slice, with their multiplicities
RowsAt(slice, W) ==
    [v \in {slice[j] : j \in W} |-> Cardinality({j \in W : slice[j] = v})]

\* the epoch of the k-th surviving candidate of the loop
EpochOf(l, k) == l.finetime[l.ind[k] + 1]

\* the observations with epoch <= t < epoch + (Tmax - Tmin)
HalfOpenWindowRows(rest, c, e) ==
    {j \in DOMAIN rest : rest[j] >= e * ZP(c) /\ rest[j] < (e + c.Tmax - c.Tmin) * ZP(c)}

\* C22 as stated: the window gathered for a candidate epoch is exactly the
\* observations with epoch <= t < epoch + (Tmax - Tmin), and the candidates
\* that reach the loop are those whose window has more than Nbetween of them.
C22_WindowIsHalfOpen ==
    pc = "loop" =>
        LET rest == RestOf(dataSlice, cfg)
        IN  /\ {EpochOf(loc, k) : k \in 1..Len(loc.ind)} =
                  {e \in CandidateEpochs(rest, cfg) :
                      Cardinality(HalfOpenWindowRows(rest, cfg, e)) > cfg.Nbetween}
            /\ \A k \in 1..Len(loc.ind) :
                  RowsAt(Visits([loc EXCEPT !.i = k - 1]),
                         1..Len(Visits([loc EXCEPT !.i = k - 1]))) =
                  RowsAt(dataSlice, HalfOpenWindowRows(rest, cfg, EpochOf(loc, k)))

\* C22: the window gathered for a candidate epoch is exactly the observations
\* whose rest-frame time t satisfies epoch <= t <= epoch + (Tmax - Tmin), the
\* far end included; a candidate whose window has at most Nbetween
\* observations never reaches the loop that evaluates the other criteria.
C22_WindowIsClosedAndSmallWindowsDiscardedFirst ==
    pc = "loop" =>
        LET rest == RestOf(dataSlice, cfg)
        IN  /\ {EpochOf(loc, k) : k \in 1..Len(loc.ind)} =
                  {e \in CandidateEpochs(rest, cfg) :
                      Cardinality(WindowRows(rest, cfg, e)) > cfg.Nbetween}
            /\ \A k \in 1..Len(loc.ind) :
                  RowsAt(Visits([loc EXCEPT !.i = k - 1]),
                         1..Len(Visits([loc EXCEPT !.i = k - 1]))) =
                  RowsAt(dataSlice, WindowRows(rest, cfg, EpochOf(loc, k)))

\* a candidate in the loop whose window holds a row at exactly
\* epoch + (Tmax - Tmin), next to a candidate epoch that was discarded
C22_Witness ==
    /\ pc = "loop"
    /\ LET rest == RestOf(dataSlice, cfg)
       IN  /\ \E k \in 1..Len(loc.ind) :
                 \E j \in WindowRows(rest, cfg, EpochOf(loc, k)) :
                     rest[j] = (EpochOf(loc, k) + cfg.Tmax - cfg.Tmin) * ZP(cfg)
           /\ \E e \in CandidateEpochs(rest, cfg) :
                 Cardinality(WindowRows(rest, cfg, e)) <= cfg.Nbetween


----------------------------------------------------------------------------
(* SupernovaMetric with the filter column bound to another name, at the     *)
(* ends of the rest-frame wavelength range, and with no filter demanded     *)
(* under a peak gap wider than any slice                                    *)

\* what a time slot holds when the metric is built with filterCol='band': a
\* row with the column 'band' alone, as the metric asks for it, or a row that
\* also carries a column 'filter' asked for by somebody else
BandOnlyKinds == {[band |-> "g"], [band |-> "y"]}
BothColumnKinds ==
    {[filter |-> "g", band |-> "y"], [filter |-> "y", band |-> "g"],
     [filter |-> "g", band |-> "g"]}

\* the rows of an assignment of kinds to the time slots 0..T, latest first
RECURSIVE ColumnSeq(_, _)
ColumnSeq(a, T) ==
    IF T < 0 THEN <<>>
    ELSE (IF a[T] = <<>> THEN <<>> ELSE <<a[T] @@ [mjd |-> T, m5 |-> 24]>>)
             \o ColumnSeq(a, T - 1)

BandSlices ==
    {ColumnSeq(a, MaxK) : a \in [0..MaxK -> BandOnlyKinds \cup {<<>>}]}
    \cup {ColumnSeq(a, MaxK) : a \in [0..MaxK -> BothColumnKinds \cup {<<>>}]}

BandConfigs == {[c EXCEPT !.filterCol = "band"] : c \in LongConfigs}

\* u at redshift 1/4 has its rest-frame wavelength at exactly 300 nm
EdgeSlices == UNION {[1..n -> {Visit(t, f, 24) : t \in 0..1, f \in {"u", "g"}}] :
                        n \in 1..MaxMixedLen}

EdgeConfigs == {SNConfig(<<1, 4>>, 1, 23, 1, u) : u \in BOOLEAN}

\* Nfilt = 0 or 1 with peakGap = 100 days
PeakConfigs == {SNConfig(<<0, 1>>, nf, 23, 100, u) : nf \in {0, 1}, u \in BOOLEAN}

InitColumns ==
    /\ metric = "SupernovaMetric"
    /\ \/ cfg \in BandConfigs /\ dataSlice \in BandSlices \ {<<>>}
       \/ cfg \in EdgeConfigs /\ dataSlice \in EdgeSlices
       \/ cfg \in PeakConfigs /\ dataSlice \in SlotSlices
    /\ pc = "start"
    /\ loc = NoLoc
    /\ ret = NoRet
    /\ red = NoRed

NextColumns ==
    \/ SNStart
    \/ SNIterate
    \/ SNReturn

SpecColumns == InitColumns /\ [][NextColumns]_vars

\* the filters whose rest-frame wavelength center / (1 + redshift) lies in
\* [300, 900] nm
FiltersInClosedRange(c) ==
    {f \in AllFilters : /\ FilterCenter(f) * ZQ(c) >= 300 * ZP(c)
                        /\ FilterCenter(f) * ZQ(c) <= 900 * ZP(c)}

\* the rows whose value in the configured filter column is such a filter
RowsInRange(slice, c) ==
    {j \in 1..Len(slice) : slice[j][c.filterCol] \in FiltersInClosedRange(c)}

\* C23: run keeps exactly the observations whose value in the configured
\* filter column is a filter with rest-frame wavelength in [300, 900] nm: the
\* rows the candidate loop works on are those rows, and run returns the
\* bad-value tuple exactly when there is none of them.
C23_KeepsRowsOfConfiguredColumnInRange ==
    /\ pc = "loop" =>
          RowsAt(loc.ds, 1..Len(loc.ds)) = RowsAt(dataSlice, RowsInRange(dataSlice, cfg))
    /\ pc = "returned" =>
          /\ ret.type \in {"dict", "tuple"}
          /\ ret.type = "tuple" <=> RowsInRange(dataSlice, cfg) = {}


\* every criterion of the candidate at epoch e other than those on the
\* near-peak gap
MeetsCountThresholds(slice, rest, c, e) ==
    LET W == WindowRows(rest, c, e)
        N == NearRows(rest, c, e)
    IN  /\ Cardinality({j \in W : rest[j] + (c.Tmin - e) * ZP(c) < c.Tless * ZP(c)}) > c.Nless
        /\ Cardinality({j \in W : rest[j] + (c.Tmin - e) * ZP(c) > c.Tmore * ZP(c)}) > c.Nmore
        /\ Cardinality(W) > c.Nbetween
        /\ Cardinality({slice[j].filter : j \in W}) >= c.Nfilt
        /\ Cardinality({f \in AllFilters :
                \E j \in N : slice[j].filter = f /\ slice[j].m5 > c.singleDepthLimit})
             >= c.Nfilt

\* C24: whenever a pass of the candidate loop accepts a sequence, at least 2
\* observations of its window lie strictly inside the near-peak sub-window
\* (Tless < t < Tmore); a candidate with 0 or 1 such observations is never
\* accepted, whatever Nfilt (0 and 1 included) and peakGap are.
C24_AcceptedSequenceHasTwoNearPeak ==
    [][(pc = "loop" /\ loc'.result > loc.result) =>
           Cardinality(NearRows(RestOf(dataSlice, cfg), cfg, EpochOf(loc, loc.i + 1))) >= 2]_vars

\* no filter demanded and a peak gap of 100 days: the loop has passed a
\* candidate that meets every count threshold with fewer than 2 near-peak
\* observations without accepting it, and has accepted another one
C24_Witness ==
    /\ pc = "loop"
    /\ cfg.Nfilt = 0 /\ cfg.peakGap = 100
    /\ loc.result = 1
    /\ LET rest == RestOf(dataSlice, cfg)
       IN  \E k \in 1..loc.i :
              /\ MeetsCountThresholds(dataSlice, rest, cfg, EpochOf(loc, k))
              /\ Cardinality(NearRows(rest, cfg, EpochOf(loc, k))) < 2
              /\ \A m \in 1..k : 
                    Cardinality(NearRows(rest, cfg, EpochOf(loc, m))) < 2


----------------------------------------------------------------------------
(* A further claim about RapidRevisitMetric *)

\* C25: whatever minNvisits is configured, the instance holds
\* max(2, minNvisits); so a run that goes past the bad-value check has
\* selected at least 2 gaps and returns a number, never an error of reading
\* the second-smallest rescaled gap, on every slice (empty and single-visit
\* slices included).
C25_ThresholdAtLeastTwoAndSecondGapInBounds ==
    metric = "RapidRevisitMetric" =>
        /\ \A m \in -1..MaxObs :
              RapidRevisitInit(m, cfg.dTmin, cfg.dTmax, cfg.badval).minNvisits =
                  IF m > 2 THEN m ELSE 2
        /\ \E m \in -1..MaxObs :
              cfg = RapidRevisitInit(m, cfg.dTmin, cfg.dTmax, cfg.badval)
        /\ cfg.minNvisits >= 2
        /\ pc = "returned" =>
              /\ ret.type = "number"
              /\ ret # Number(Rat(cfg.badval, 1)) =>
                    Len(SelectedGaps(dataSlice, cfg)) >= 2

\* a run with the threshold at its floor of 2 that went past the bad-value
\* check with exactly 2 selected gaps
C25_Witness ==
    /\ pc = "returned" /\ metric = "RapidRevisitMetric"
    /\ cfg.minNvisits = 2
    /\ Len(SelectedGaps(dataSlice, cfg)) = 2
    /\ ret.type = "number" /\ ret # Number(Rat(cfg.badval, 1))


----------------------------------------------------------------------------
(* Which metrics of cadenceMetrics.py reorder the caller's slice *)

AscendingInTime(slice) ==
    \A j \in 1..(Len(slice) - 1) : slice[j].mjd <= slice[j + 1].mjd

CadenceMetrics ==
    {"SupernovaMetric", "TemplateExistsMetric", "UniformityMetric", "RapidRevisitMetric",
     "NRevisitsMetric", "IntraNightGapsMetric", "InterNightGapsMetric", "AveGapMetric"}

\* C26 as stated: after run the caller's slice is sorted by observation time
\* for IntraNightGapsMetric, InterNightGapsMetric, AveGapMetric and
\* SupernovaMetric, and in its original order for every other metric of
\* cadenceMetrics.py.
C26_ReorderedByTheFourNamedOnly ==
    (pc = "returned" /\ metric \in CadenceMetrics) =>
        IF metric \in {"IntraNightGapsMetric", "InterNightGapsMetric", "AveGapMetric",
                       "SupernovaMetric"}
        THEN AscendingInTime(dataSlice)
        ELSE dataSlice = loc.given

\* C26: after run the caller's slice is sorted by observation time for
\* IntraNightGapsMetric, InterNightGapsMetric, AveGapMetric and
\* TemplateExistsMetric, and is in its original order for SupernovaMetric,
\* UniformityMetric, RapidRevisitMetric and NRevisitsMetric.
C26_ReorderedByGapAndTemplateMetricsOnly ==
    (pc = "returned" /\ metric \in CadenceMetrics) =>
        IF metric \in {"IntraNightGapsMetric", "InterNightGapsMetric", "AveGapMetric",
                       "TemplateExistsMetric"}
        THEN AscendingInTime(dataSlice) /\ SameRows(dataSlice, loc.given)
        ELSE dataSlice = loc.given

\* SupernovaMetric has found a sequence in a slice given out of time order,
\* and the slice is still in the order given
C26_Witness ==
    /\ pc = "returned" /\ metric = "SupernovaMetric"
    /\ ret.type = "dict" /\ ret.result >= 1
    /\ ~AscendingInTime(loc.given)
    /\ dataSlice = loc.given


----------------------------------------------------------------------------
(* What TemplateExistsMetric is specified to compute, stated on the rows as *)
(* the caller passed them                                                   *)

\* the rows observed strictly earlier than row i
StrictlyEarlier(slice, i) == {k \in 1..Len(slice) : slice[k].mjd < slice[i].mjd}

\* the rows that come before row i when the slice is put in order of time,
\* rows of equal time in order of seeing
ComesBefore(slice, i) ==
    {k \in 1..Len(slice) :
        \/ slice[k].mjd < slice[i].mjd
        \/ /\ slice[k].mjd = slice[i].mjd
           /\ \/ slice[k].seeing < slice[i].seeing
              \/ slice[k].seeing = slice[i].seeing /\ k < i}

\* the rows with a template: some row of P(i) exists and the seeing of row i
\* is at least the smallest seeing among them
WithTemplate(slice, P(_)) ==
    {i \in 1..Len(slice) :
        /\ P(i) # {}
        /\ \E k \in P(i) :
              /\ slice[k].seeing <= slice[i].seeing
              /\ \A m \in P(i) : slice[k].seeing <= slice[m].seeing}

\* C27 as stated: on N >= 1 visits run returns (number of visits, other than
\* the earliest in time, whose seeing is >= the minimum seeing over all
\* strictly earlier visits) / N; the result lies in [0, (N-1)/N] and is 0 for
\* a single visit.
C27_FractionAgainstStrictlyEarlierVisits ==
    (pc = "returned" /\ metric = "TemplateExistsMetric" /\ Len(loc.given) >= 1) =>
        LET N == Len(loc.given)
            earlier(i) == StrictlyEarlier(loc.given, i)
        IN  /\ ret = Number(Rat(Cardinality(WithTemplate(loc.given, earlier)), N))
            /\ RatLeq(<<0, 1>>, ret.val) /\ RatLeq(ret.val, Rat(N - 1, N))
            /\ N = 1 => ret = Number(<<0, 1>>)

\* C27: on N >= 1 visits run returns (number of visits, other than the first
\* of the slice in order of time, whose seeing is >= the minimum seeing over
\* the visits before it in that order) / N, visits of equal time taken in
\* order of seeing; when the times are pairwise distinct these are the
\* strictly earlier visits.  The first visit never counts, so the result lies
\* in [0, (N-1)/N] and is 0 for a single visit.
C27_FractionAgainstVisitsBeforeInTimeOrder ==
    (pc = "returned" /\ metric = "TemplateExistsMetric" /\ Len(loc.given) >= 1) =>
        LET N == Len(loc.given)
            before(i) == ComesBefore(loc.given, i)
            earlier(i) == StrictlyEarlier(loc.given, i)
        IN  /\ ret = Number(Rat(Cardinality(WithTemplate(loc.given, before)), N))
            /\ DistinctTimes(loc.given) =>
                  ret = Number(Rat(Cardinality(WithTemplate(loc.given, earlier)), N))
            /\ RatLeq(<<0, 1>>, ret.val) /\ RatLeq(ret.val, Rat(N - 1, N))
            /\ N = 1 => ret = Number(<<0, 1>>)

\* three visits at distinct times, given out of time order, one of them with
\* a template
C27_Witness ==
    /\ pc = "returned" /\ metric = "TemplateExistsMetric"
    /\ Len(loc.given) = 3 /\ DistinctTimes(loc.given)
    /\ loc.given[1].mjd > loc.given[2].mjd
    /\ ret = Number(<<1, 3>>)

====
